---- MODULE Spec2Model ----
(***************************************************************************)
(* A model of scripts/cost-metrics.py: the Prometheus cost exporter.       *)
(*                                                                         *)
(* Python strings are modelled as sequences of one-character strings, so   *)
(* that slicing (ts[:10], ts[11:13]), substring search (pattern in path)   *)
(* and lexicographic comparison are computed as Python computes them.      *)
(* Floating-point percentages are modelled as exact rationals.             *)
(***************************************************************************)
EXTENDS Integers, Sequences, FiniteSets, TLC

VARIABLES
    pc,             \* position of the run
    today,          \* date.today(): [y, m, d]
    filepath,       \* map_role: the argument of the last call
    roleResult,     \* map_role: the value returned by the last call
    burnDaily,      \* compute_burn_rate: the daily rollup passed in
    burnResult,     \* compute_burn_rate: (elapsed_pct, usage_pct)
    env,            \* os.environ: the two Twilio credentials
    requests,       \* the categories requested from the Twilio API, in order
    responses,      \* the outcome of each of those requests, in order
    pending,        \* usage records of the current response still to be summed
    sms_cost, sms_count, number_cost, number_count,
    twResult,       \* the tuple fetch_twilio_costs returned
    raised,         \* an exception that left the function (none: "")
    patternIdx,     \* scan: index of the glob pattern being scanned
    nfiles,         \* scan: files opened so far
    rest,           \* scan: lines of the open file not read yet (line ids)
    role,           \* scan: map_role of the open file
    daily, by_role, hourly, total_sessions,
    qualInput,      \* history: qualifying records in the files opened so far
    qualPairs,      \* history: their (day, sessionId) pairs
    clearing_cost, clearing_count,
    out             \* what was printed to standard output, one entry per print

roleVars == <<filepath, roleResult>>
burnVars == <<burnDaily, burnResult>>
twVars == <<env, requests, responses, pending,
            sms_cost, sms_count, number_cost, number_count, twResult>>

rollups == <<daily, by_role, hourly, total_sessions>>
scanVars == <<patternIdx, nfiles, rest, role, rollups, qualInput, qualPairs>>

runVars == <<clearing_cost, clearing_count, out>>

vars == <<pc, today, roleVars, burnVars, twVars, raised, scanVars, runVars>>

(***************************************************************************)
(* Bounds of the model.                                                    *)
(***************************************************************************)
MaxSegs == 3        \* path segments of a map_role argument
MaxBurnMsgs == 1    \* largest msgs value of a day handed to compute_burn_rate
MaxRecs == 2        \* usage records in one Twilio response
MaxFiles == 2       \* session files found by the globs
MaxLines == 2       \* lines of one session file
RunMaxFiles == 1    \* whole run: session files found by the globs
RunMaxLines == 1    \* whole run: lines of one session file
RunMaxRecs == 1     \* whole run: usage records in one Twilio response
RunMaxClearing == 1 \* whole run: files in the transcripts directory

(***************************************************************************)
(* Python string operations.                                               *)
(***************************************************************************)

\* s[:n]
Prefix(s, n) == SubSeq(s, 1, IF Len(s) < n THEN Len(s) ELSE n)

\* s[a:b] with 0 <= a <= b (Python's 0-based, end-exclusive slice)
Slice(s, a, b) == SubSeq(s, a + 1, IF Len(s) < b THEN Len(s) ELSE b)

\* pattern in s
Contains(pattern, s) ==
    \E i \in 1..(Len(s) - Len(pattern) + 1) :
        SubSeq(s, i, i + Len(pattern) - 1) = pattern

\* ord(c) for the characters that occur in dates and timestamps
Ord(c) ==
    CASE c = "-" -> 45
      [] c = "0" -> 48 [] c = "1" -> 49 [] c = "2" -> 50 [] c = "3" -> 51
      [] c = "4" -> 52 [] c = "5" -> 53 [] c = "6" -> 54 [] c = "7" -> 55
      [] c = "8" -> 56 [] c = "9" -> 57
      [] c = ":" -> 58 [] c = "T" -> 84 [] c = "Z" -> 90 [] c = "x" -> 120

\* a < b on strings: lexicographic by code point, a proper prefix is smaller
RECURSIVE StrLess(_, _)
StrLess(a, b) ==
    IF b = <<>> THEN FALSE
    ELSE IF a = <<>> THEN TRUE
    ELSE IF Ord(Head(a)) < Ord(Head(b)) THEN TRUE
    ELSE IF Ord(Head(a)) > Ord(Head(b)) THEN FALSE
    ELSE StrLess(Tail(a), Tail(b))

Digit(n) == CASE n = 0 -> "0" [] n = 1 -> "1" [] n = 2 -> "2" [] n = 3 -> "3"
              [] n = 4 -> "4" [] n = 5 -> "5" [] n = 6 -> "6" [] n = 7 -> "7"
              [] n = 8 -> "8" [] n = 9 -> "9"

\* f"{n:02d}" for 0 <= n <= 99
Pad2(n) == <<Digit(n \div 10), Digit(n % 10)>>

\* f"{n:04d}" for 0 <= n <= 9999
Pad4(n) == <<Digit(n \div 1000), Digit((n \div 100) % 10),
             Digit((n \div 10) % 10), Digit(n % 10)>>

\* date.isoformat()
IsoFormat(dt) == Pad4(dt.y) \o <<"-">> \o Pad2(dt.m) \o <<"-">> \o Pad2(dt.d)

(***************************************************************************)
(* ROLE_MAP and map_role.                                                  *)
(***************************************************************************)
PatArchitect == <<"-","a","r","c","h","i","t","e","c","t","/">>
PatEngineer == <<"-","e","n","g","i","n","e","e","r","/">>
PatProductManager ==
    <<"-","p","r","o","d","u","c","t","-","m","a","n","a","g","e","r","/">>
PatPersonalSite ==
    <<"-","p","e","r","s","o","n","a","l","-","s","i","t","e","/">>

\* the dict, in insertion order (the order ROLE_MAP.items() iterates in)
ROLE_MAP == <<
    [pattern |-> PatArchitect, role |-> "silas"],
    [pattern |-> PatEngineer, role |-> "kade"],
    [pattern |-> PatProductManager, role |-> "wren"],
    [pattern |-> PatPersonalSite, role |-> "app"] >>

RECURSIVE MapRoleFrom(_, _)
MapRoleFrom(path, i) ==
    IF i > Len(ROLE_MAP) THEN "other"
    ELSE IF Contains(ROLE_MAP[i].pattern, path) THEN ROLE_MAP[i].role
    ELSE MapRoleFrom(path, i + 1)

\* a map_role that lets the LAST matching pattern of the table win
RECURSIVE MapRoleLastFrom(_, _)
MapRoleLastFrom(path, i) ==
    IF i < 1 THEN "other"
    ELSE IF Contains(ROLE_MAP[i].pattern, path) THEN ROLE_MAP[i].role
    ELSE MapRoleLastFrom(path, i - 1)

map_role_last(path) == MapRoleLastFrom(path, Len(ROLE_MAP))

map_role(path) == MapRoleFrom(path, 1)

(***************************************************************************)
(* Paths handed to map_role: up to MaxSegs segments, among them the four   *)
(* patterns and pieces that only form a pattern when put side by side.     *)
(***************************************************************************)
Segments == {
    PatArchitect, PatEngineer, PatProductManager, PatPersonalSite,
    <<"-","a","r","c","h","i","t","e","c","t">>,
    <<"a","r","c","h","i","t","e","c","t","/">>,
    <<"/">>, <<"-">>, <<"x">> }

RECURSIVE Paths(_)
Paths(n) ==
    IF n = 0 THEN {<<>>}
    ELSE Paths(n - 1) \cup {p \o s : p \in Paths(n - 1), s \in Segments}

(***************************************************************************)
(* compute_burn_rate.                                                      *)
(***************************************************************************)
DaysInMonth(m) ==
    IF m \in {1, 3, 5, 7, 8, 10, 12} THEN 31
    ELSE IF m \in {4, 6, 9, 11} THEN 30
    ELSE 28

\* a days_in_month that follows the calendar in leap years
DaysInMonthLeap(dt) ==
    IF dt.m = 2 /\ dt.y % 4 = 0 /\ (dt.y % 100 # 0 \/ dt.y % 400 = 0) THEN 29
    ELSE DaysInMonth(dt.m)

\* days_in_month of lines 201-205, from date.fromisoformat(today)
days_in_month(dt) == DaysInMonth(dt.m)

Max(a, b) == IF a > b THEN a ELSE b

\* (n / d) * 100, as the rational num/den
Pct(n, d) == [num |-> n * 100, den |-> d]

compute_burn_rate(dly, dt) ==
    LET active_days == Cardinality({k \in DOMAIN dly : dly[k].msgs > 0})
    IN  [elapsed_pct |-> Pct(dt.d, days_in_month(dt)),
         usage_pct |-> Pct(active_days, Max(dt.d, 1))]

\* the calendar: the dates date.today() can return
RealDays(y, m) ==
    IF m = 2 THEN (IF y % 4 = 0 /\ (y % 100 # 0 \/ y % 400 = 0) THEN 29 ELSE 28)
    ELSE IF m \in {4, 6, 9, 11} THEN 30 ELSE 31

Years == {2024, 2026}
Dates == {dt \in [y : Years, m : 1..12, d : 1..31] : dt.d <= RealDays(dt.y, dt.m)}

\* daily rollups handed to compute_burn_rate: some days, each with a msgs count
BurnDays == {"d1", "d2", "d3", "d4"}
BurnDailies ==
    UNION {[S -> [msgs : 0..MaxBurnMsgs]] : S \in SUBSET BurnDays}

NoResult == [none |-> TRUE]

InitRoleVars == filepath = <<>> /\ roleResult = "none"

InitBurnVars == burnDaily = <<>> /\ burnResult = NoResult

InitTwVars ==
    /\ requests = <<>>
    /\ responses = <<>>
    /\ pending = <<>>
    /\ sms_cost = 0 /\ sms_count = 0 /\ number_cost = 0 /\ number_count = 0
    /\ twResult = NoResult

EmptyDict == [k \in {} |-> 0]

\* lines 55-63
InitScanVars ==
    /\ patternIdx = 1
    /\ nfiles = 0
    /\ rest = <<>>
    /\ role = ""
    /\ daily = EmptyDict
    /\ by_role = EmptyDict
    /\ hourly = EmptyDict
    /\ total_sessions = {}
    /\ qualInput = 0
    /\ qualPairs = {}

InitRunVars == clearing_cost = 0 /\ clearing_count = 0 /\ out = <<>>

InitCommon ==
    /\ pc = "start"
    /\ raised = ""
    /\ InitRoleVars
    /\ InitBurnVars
    /\ InitTwVars
    /\ InitScanVars
    /\ InitRunVars

(***************************************************************************)
(* fetch_twilio_costs.  Dollar amounts are in ten-thousandths of a dollar. *)
(***************************************************************************)

\* os.environ.get(name): None when unset, else the string (its length is kept)
EnvValues == {[set |-> FALSE, len |-> 0], [set |-> TRUE, len |-> 0],
              [set |-> TRUE, len |-> 34]}

\* not v, for v a string or None
Falsy(v) == ~v.set \/ v.len = 0

\* a missing-credentials test that wants BOTH values missing before it gives up
CredentialsMissingBoth(e) == Falsy(e.account_sid) /\ Falsy(e.auth_token)

\* line 155: not account_sid or not auth_token
CredentialsMissing(e) == Falsy(e.account_sid) \/ Falsy(e.auth_token)

EnvAbsent == [account_sid |-> [set |-> FALSE, len |-> 0],
              auth_token |-> [set |-> FALSE, len |-> 0]]

BadEnv == Falsy(env.account_sid) \/ Falsy(env.auth_token)

\* a field of a usage record: missing, a decimal string, null, or another string
FAbsent == [kind |-> "absent", v |-> 0]
FNum(n) == [kind |-> "num", v |-> n]
FNull == [kind |-> "null", v |-> 0]
FBad == [kind |-> "bad", v |-> 0]

\* float(record.get("price", 0)) and int(record.get("count", 0)):
\* the value, or the exception raised
Convert(f) ==
    CASE f.kind = "absent" -> [exc |-> "", v |-> 0]
      [] f.kind = "num" -> [exc |-> "", v |-> f.v]
      [] f.kind = "null" -> [exc |-> "TypeError", v |-> 0]
      [] f.kind = "bad" -> [exc |-> "ValueError", v |-> 0]

UsageRecords == {
    [price |-> FNum(75), count |-> FNum(1)],
    [price |-> FNum(11500), count |-> FNum(2)],
    [price |-> FAbsent, count |-> FAbsent],
    [price |-> FNull, count |-> FNum(1)],
    [price |-> FNum(150), count |-> FBad] }

RECURSIVE SeqsUpTo(_, _)
SeqsUpTo(S, n) ==
    IF n = 0 THEN {<<>>}
    ELSE SeqsUpTo(S, n - 1)
         \cup {Append(q, x) : q \in SeqsUpTo(S, n - 1), x \in S}

\* what urlopen + json.loads + data.get("usage_records", []) come to:
\* an exception, or the list of records
ResponsesOf(excs, recs, n) ==
    {[exc |-> e, records |-> <<>>] : e \in excs}
    \cup {[exc |-> "", records |-> r] : r \in SeqsUpTo(recs, n)}

Responses ==
    ResponsesOf({"URLError", "timeout", "HTTPError", "JSONDecodeError",
                 "AttributeError"}, UsageRecords, MaxRecs)

\* a handler that lets network errors through
CatchesAllButNetwork(exc) == exc \notin {"URLError", "timeout", "HTTPError"}

\* line 192: except Exception
TwilioCatches(exc) == TRUE

\* an exception inside the try: swallowed, then the return of line 195
TwilioExcept(exc, sc, sn, nc, nn) ==
    IF TwilioCatches(exc)
    THEN /\ pc' = "tw_returned"
         /\ twResult' = <<sc, sn, nc, nn>>
         /\ raised' = raised
    ELSE /\ pc' = "tw_raised"
         /\ twResult' = twResult
         /\ raised' = exc

\* lines 152-156
TwilioEnter ==
    /\ pc = "tw_start"
    /\ IF CredentialsMissing(env)
       THEN /\ pc' = "tw_returned"
            /\ twResult' = <<0, 0, 0, 0>>
       ELSE /\ pc' = "sms_req"
            /\ twResult' = twResult
    /\ UNCHANGED <<today, roleVars, burnVars, scanVars, runVars, env, requests, responses, pending,
                   sms_cost, sms_count, number_cost, number_count, raised>>

\* lines 175-178 (category sms) and 184-187 (category phonenumbers)
TwilioRequest(at, category, summing, RS) ==
    /\ pc = at
    /\ \E r \in RS :
        /\ requests' = Append(requests, category)
        /\ responses' = Append(responses, r)
        /\ IF r.exc # ""
           THEN /\ TwilioExcept(r.exc, sms_cost, sms_count, number_cost, number_count)
                /\ pending' = pending
           ELSE /\ pc' = summing
                /\ pending' = r.records
                /\ UNCHANGED <<twResult, raised>>
    /\ UNCHANGED <<today, roleVars, burnVars, scanVars, runVars, env,
                   sms_cost, sms_count, number_cost, number_count>>

TwilioSmsRequest(RS) == TwilioRequest("sms_req", "sms", "sms_sum", RS)

TwilioNumberRequest(RS) ==
    TwilioRequest("num_req", "phonenumbers", "num_sum", RS)

\* lines 179-181: one turn of the loop over the sms records
TwilioSumSms ==
    /\ pc = "sms_sum"
    /\ IF pending = <<>>
       THEN /\ pc' = "num_req"
            /\ UNCHANGED <<pending, sms_cost, sms_count, twResult, raised>>
       ELSE LET price == Convert(Head(pending).price)
                count == Convert(Head(pending).count)
            IN  IF price.exc # ""
                THEN /\ TwilioExcept(price.exc, sms_cost, sms_count,
                                     number_cost, number_count)
                     /\ UNCHANGED <<pending, sms_cost, sms_count>>
                ELSE IF count.exc # ""
                THEN /\ sms_cost' = sms_cost + price.v
                     /\ TwilioExcept(count.exc, sms_cost + price.v, sms_count,
                                     number_cost, number_count)
                     /\ UNCHANGED <<pending, sms_count>>
                ELSE /\ sms_cost' = sms_cost + price.v
                     /\ sms_count' = sms_count + count.v
                     /\ pending' = Tail(pending)
                     /\ UNCHANGED <<pc, twResult, raised>>
    /\ UNCHANGED <<today, roleVars, burnVars, scanVars, runVars, env, requests, responses,
                   number_cost, number_count>>

\* lines 188-190, and the return of line 195 once the loop is over
TwilioSumNumbers ==
    /\ pc = "num_sum"
    /\ IF pending = <<>>
       THEN /\ pc' = "tw_returned"
            /\ twResult' = <<sms_cost, sms_count, number_cost, number_count>>
            /\ UNCHANGED <<pending, number_cost, number_count, raised>>
       ELSE LET price == Convert(Head(pending).price)
                count == Convert(Head(pending).count)
            IN  IF price.exc # ""
                THEN /\ TwilioExcept(price.exc, sms_cost, sms_count,
                                     number_cost, number_count)
                     /\ UNCHANGED <<pending, number_cost, number_count>>
                ELSE IF count.exc # ""
                THEN /\ number_cost' = number_cost + price.v
                     /\ TwilioExcept(count.exc, sms_cost, sms_count,
                                     number_cost + price.v, number_count)
                     /\ UNCHANGED <<pending, number_count>>
                ELSE /\ number_cost' = number_cost + price.v
                     /\ number_count' = number_count + count.v
                     /\ pending' = Tail(pending)
                     /\ UNCHANGED <<pc, twResult, raised>>
    /\ UNCHANGED <<today, roleVars, burnVars, scanVars, runVars, env, requests, responses,
                   sms_cost, sms_count>>

TwilioNext ==
    \/ TwilioEnter
    \/ TwilioSmsRequest(Responses)
    \/ TwilioSumSms
    \/ TwilioNumberRequest(Responses)
    \/ TwilioSumNumbers

InitTwilio ==
    /\ pc = "tw_start"
    /\ raised = ""
    /\ today = [y |-> 2026, m |-> 11, d |-> 1]
    /\ env \in [account_sid : EnvValues, auth_token : EnvValues]
    /\ InitRoleVars
    /\ InitBurnVars
    /\ InitTwVars
    /\ InitScanVars
    /\ InitRunVars

SpecTwilio == InitTwilio /\ [][TwilioNext]_vars

(***************************************************************************)
(* scan_claude_sessions.                                                   *)
(***************************************************************************)

\* lines 36-39
get_billing_period(dt) == IsoFormat([y |-> dt.y, m |-> dt.m, d |-> 1])

\* d.get(k, default)
Get(d, k, default) == IF k \in DOMAIN d THEN d[k] ELSE default

\* JSON values of the token fields: a number or null
JNum(n) == [kind |-> "num", v |-> n]
JNull == [kind |-> "null", v |-> 0]

\* an ISO-8601 timestamp, YYYY-MM-DDTHH:MM:SSZ
Stamp(dt, h, mi, sec) ==
    IsoFormat(dt) \o <<"T">> \o Pad2(h) \o <<":">> \o Pad2(mi) \o <<":">>
        \o Pad2(sec) \o <<"Z">>

Oct31 == [y |-> 2026, m |-> 10, d |-> 31]
Nov01 == [y |-> 2026, m |-> 11, d |-> 1]
Nov02 == [y |-> 2026, m |-> 11, d |-> 2]
Dec05 == [y |-> 2026, m |-> 12, d |-> 5]

\* json.loads(line) of the lines a session file can hold: "invalid" raises
\* JSONDecodeError, "array" is valid JSON that is no object, "object" is a dict
Lines == <<
    \* 1: not JSON
    [json |-> "invalid", obj |-> EmptyDict],
    \* 2: []
    [json |-> "array", obj |-> EmptyDict],
    \* 3: no timestamp
    [json |-> "object", obj |-> [sessionId |-> "s1",
        message |-> [usage |-> [input_tokens |-> JNum(1)]]]],
    \* 4: the last day of the month before
    [json |-> "object", obj |-> [timestamp |-> Stamp(Oct31, 23, 59, 59),
        sessionId |-> "s1",
        message |-> [usage |-> [input_tokens |-> JNum(7), output_tokens |-> JNum(3)]]]],
    \* 5: the first day of the month, 00:00:00
    [json |-> "object", obj |-> [timestamp |-> Stamp(Nov01, 0, 0, 0),
        sessionId |-> "s1",
        message |-> [usage |-> [input_tokens |-> JNum(100), output_tokens |-> JNum(20)]]]],
    \* 6: the first day of the month, 23:59:59, the same session
    [json |-> "object", obj |-> [timestamp |-> Stamp(Nov01, 23, 59, 59),
        sessionId |-> "s1",
        message |-> [usage |-> [input_tokens |-> JNum(50), output_tokens |-> JNum(10)]]]],
    \* 7: the next day, the same session
    [json |-> "object", obj |-> [timestamp |-> Stamp(Nov02, 0, 10, 0),
        sessionId |-> "s1",
        message |-> [usage |-> [input_tokens |-> JNum(1), output_tokens |-> JNum(1),
            cache_read_input_tokens |-> JNum(5),
            cache_creation_input_tokens |-> JNum(2)]]]],
    \* 8: a timestamp that ends with the hour: 2026-11-02T14
    [json |-> "object", obj |-> [timestamp |-> Prefix(Stamp(Nov02, 14, 0, 0), 13),
        sessionId |-> "s2",
        message |-> [usage |-> [output_tokens |-> JNum(4)]]]],
    \* 9: a message without a usage block
    [json |-> "object", obj |-> [timestamp |-> Stamp(Nov01, 0, 0, 0),
        sessionId |-> "s2", message |-> [role |-> "user"]]],
    \* 10: an empty usage block
    [json |-> "object", obj |-> [timestamp |-> Stamp(Nov01, 0, 0, 0),
        sessionId |-> "s2", message |-> [usage |-> EmptyDict]]],
    \* 11: a date only, no sessionId
    [json |-> "object", obj |-> [timestamp |-> IsoFormat(Nov02),
        message |-> [usage |-> [input_tokens |-> JNum(2)]]]],
    \* 12: a token count that is null
    [json |-> "object", obj |-> [timestamp |-> Stamp(Nov02, 9, 30, 0),
        sessionId |-> "s2",
        message |-> [usage |-> [input_tokens |-> JNum(5), output_tokens |-> JNull]]]],
    \* 13: next month, a negative token count
    [json |-> "object", obj |-> [timestamp |-> Stamp(Dec05, 9, 30, 0),
        sessionId |-> "s2",
        message |-> [usage |-> [output_tokens |-> JNum(-3)]]]] >>

LineIds == 1..Len(Lines)

\* lines 55-61: the values the two defaultdicts create
NewDay == [input |-> 0, output |-> 0, cache_read |-> 0, cache_create |-> 0,
           msgs |-> 0, sessions |-> {}]
NewRole == [input |-> 0, output |-> 0, cache_read |-> 0, cache_create |-> 0,
            msgs |-> 0]

TokenKeys == <<"input_tokens", "output_tokens", "cache_read_input_tokens",
               "cache_creation_input_tokens">>
Counters == <<"input", "output", "cache_read", "cache_create">>

\* lines 98-101 and 105-108: entry[counter] += value, in order; adding a value
\* that is no number raises TypeError and leaves the earlier additions done
RECURSIVE AddTokens(_, _, _)
AddTokens(entry, vals, i) ==
    IF i > Len(Counters) THEN [entry |-> entry, exc |-> ""]
    ELSE IF vals[i].kind # "num" THEN [entry |-> entry, exc |-> "TypeError"]
    ELSE AddTokens([entry EXCEPT ![Counters[i]] = @ + vals[i].v], vals, i + 1)

IsDigit(c) == Ord(c) >= 48 /\ Ord(c) <= 57

\* int(s) for a two-character string
ParseInt(s) ==
    IF IsDigit(s[1]) /\ IsDigit(s[2])
    THEN [exc |-> "", v |-> (Ord(s[1]) - 48) * 10 + (Ord(s[2]) - 48)]
    ELSE IF s[1] = "-" /\ IsDigit(s[2])
    THEN [exc |-> "", v |-> 0 - (Ord(s[2]) - 48)]
    ELSE [exc |-> "ValueError", v |-> 0]

\* line 90
HourOf(ts) == IF Len(ts) > 13 THEN Slice(ts, 11, 13) ELSE <<"0", "0">>

\* d[k] of a defaultdict: the key is created on first access
Touch(d, k, new) == IF k \in DOMAIN d THEN d ELSE d @@ (k :> new)

Outcome(d, r, h, t, exc) ==
    [daily |-> d, by_role |-> r, hourly |-> h, total_sessions |-> t, exc |-> exc]

\* lines 79-112: the body of the inner try for one line; the rollups as they
\* are when the body is left, and the exception it is left with ("": none)
ProcessLine(line, rl, billing_start) ==
    IF line.json = "invalid"
    THEN Outcome(daily, by_role, hourly, total_sessions, "JSONDecodeError")
    ELSE IF line.json # "object"
    THEN Outcome(daily, by_role, hourly, total_sessions, "AttributeError")
    ELSE
    LET obj == line.obj
        ts == Get(obj, "timestamp", <<>>)
    IN
    IF Len(ts) = 0 \/ StrLess(Prefix(ts, 10), billing_start)
    THEN Outcome(daily, by_role, hourly, total_sessions, "")
    ELSE
    LET msg == Get(obj, "message", EmptyDict)
        usage == Get(msg, "usage", EmptyDict)
    IN
    IF DOMAIN usage = {}
    THEN Outcome(daily, by_role, hourly, total_sessions, "")
    ELSE
    LET day == Prefix(ts, 10)
        hour == HourOf(ts)
        sid == Get(obj, "sessionId", "")
        vals == [i \in 1..Len(TokenKeys) |-> Get(usage, TokenKeys[i], JNum(0))]
        d0 == Touch(daily, day, NewDay)
        da == AddTokens(d0[day], vals, 1)
        d1 == [d0 EXCEPT ![day] = da.entry]
        d2 == [d1 EXCEPT ![day].msgs = @ + 1, ![day].sessions = @ \cup {sid}]
        r0 == Touch(by_role, rl, NewRole)
        ra == AddTokens(r0[rl], vals, 1)
        r1 == [r0 EXCEPT ![rl] = ra.entry]
        r2 == [r1 EXCEPT ![rl].msgs = @ + 1]
        hr == ParseInt(hour)
        h1 == [Touch(hourly, hr.v, 0) EXCEPT ![hr.v] = @ + 1]
    IN
    IF da.exc # "" THEN Outcome(d1, by_role, hourly, total_sessions, da.exc)
    ELSE IF ra.exc # "" THEN Outcome(d2, r1, hourly, total_sessions, ra.exc)
    ELSE IF hr.exc # "" THEN Outcome(d2, r2, hourly, total_sessions, hr.exc)
    ELSE Outcome(d2, r2, h1, total_sessions \cup {sid}, "")

\* line 114: except json.JSONDecodeError
InnerCatches(exc) == exc = "JSONDecodeError"

\* a handler for I/O errors only
OuterCatchesOSError(exc) == exc = "OSError"

\* line 116: except Exception
OuterCatches(exc) == TRUE

\* lines 65-70: the directories of the four glob patterns, the home prefix
\* ~/.claude/projects/-Users-jeffbridwell-CascadeProjects cut to ~/-CP
ProjectsPrefix == <<"~", "/", "-", "C", "P">>
PatternDirs == <<
    ProjectsPrefix \o PatArchitect,
    ProjectsPrefix \o PatEngineer,
    ProjectsPrefix \o PatProductManager,
    ProjectsPrefix \o <<"-", "j", "b">> \o PatPersonalSite >>

FileName == <<"a", ".", "j", "s", "o", "n", "l">>

\* glob.glob(pattern, recursive=True): files of the directory and of its
\* subdirectories, one of them named old-architect
GlobResults(i) ==
    {PatternDirs[i] \o FileName,
     PatternDirs[i] \o <<"o", "l", "d">> \o PatArchitect \o FileName}

\* the records the claims count: a usage block that is not empty and a
\* timestamp whose date is not before the billing start
HasUsage(line) ==
    /\ line.json = "object"
    /\ "message" \in DOMAIN line.obj
    /\ "usage" \in DOMAIN line.obj.message
    /\ DOMAIN line.obj.message.usage # {}

Qualifies(line, billing_start) ==
    /\ HasUsage(line)
    /\ "timestamp" \in DOMAIN line.obj
    /\ ~StrLess(Prefix(line.obj.timestamp, 10), billing_start)

QualifyingIn(content, billing_start) ==
    {i \in 1..Len(content) : Qualifies(Lines[content[i]], billing_start)}

\* lines 73-76: the next file the glob yields is opened; open() may fail
OpenFile(LS, maxFiles, maxLines) ==
    /\ pc = "scan"
    /\ rest = <<>>
    /\ nfiles < maxFiles
    /\ nfiles' = nfiles + 1
    /\ \E path \in GlobResults(patternIdx), readable \in BOOLEAN :
        IF readable
        THEN \E content \in SeqsUpTo(LS, maxLines) :
            LET q == QualifyingIn(content, get_billing_period(today))
            IN  /\ rest' = content
                /\ role' = IF content = <<>> THEN "" ELSE map_role(path)
                /\ qualInput' = qualInput + Cardinality(q)
                /\ qualPairs' = qualPairs \cup
                      {<<Prefix(Lines[content[i]].obj.timestamp, 10),
                         Get(Lines[content[i]].obj, "sessionId", "")>> : i \in q}
                /\ UNCHANGED <<pc, raised>>
        ELSE /\ IF OuterCatches("OSError")
                THEN UNCHANGED <<pc, raised>>
                ELSE pc' = "scan_raised" /\ raised' = "OSError"
             /\ UNCHANGED <<rest, role, qualInput, qualPairs>>
    /\ UNCHANGED <<today, roleVars, burnVars, twVars, runVars, patternIdx, rollups>>

\* lines 77-117: one line of the open file
ScanLine ==
    /\ pc = "scan"
    /\ rest # <<>>
    /\ LET o == ProcessLine(Lines[Head(rest)], role, get_billing_period(today))
           left == IF o.exc = "" \/ InnerCatches(o.exc) THEN Tail(rest) ELSE <<>>
       IN  /\ daily' = o.daily
           /\ by_role' = o.by_role
           /\ hourly' = o.hourly
           /\ total_sessions' = o.total_sessions
           /\ rest' = left
           /\ role' = IF left = <<>> THEN "" ELSE role
           /\ IF o.exc = "" \/ InnerCatches(o.exc) \/ OuterCatches(o.exc)
              THEN UNCHANGED <<pc, raised>>
              ELSE pc' = "scan_raised" /\ raised' = o.exc
    /\ UNCHANGED <<today, roleVars, burnVars, twVars, runVars, patternIdx, nfiles,
                   qualInput, qualPairs>>

\* line 72: the next pattern
NextPattern ==
    /\ pc = "scan"
    /\ rest = <<>>
    /\ patternIdx < Len(PatternDirs)
    /\ patternIdx' = patternIdx + 1
    /\ UNCHANGED <<pc, today, roleVars, burnVars, twVars, runVars, raised, nfiles, rest,
                   role, rollups, qualInput, qualPairs>>

\* line 119
ScanReturn ==
    /\ pc = "scan"
    /\ rest = <<>>
    /\ patternIdx = Len(PatternDirs)
    /\ pc' = "scanned"
    /\ UNCHANGED <<today, roleVars, burnVars, twVars, runVars, raised, scanVars>>

ScanNext ==
    \/ OpenFile(LineIds, MaxFiles, MaxLines)
    \/ ScanLine
    \/ NextPattern
    \/ ScanReturn

InitScan ==
    /\ pc = "scan"
    /\ raised = ""
    /\ today = [y |-> 2026, m |-> 11, d |-> 15]
    /\ env = EnvAbsent
    /\ InitRoleVars
    /\ InitBurnVars
    /\ InitTwVars
    /\ InitScanVars
    /\ InitRunVars

SpecScan == InitScan /\ [][ScanNext]_vars

(***************************************************************************)
(* scan_clearing_sessions.  Costs are in ten-thousandths of a dollar.      *)
(***************************************************************************)
EndsWith(str, suffix) ==
    Len(str) >= Len(suffix)
    /\ SubSeq(str, Len(str) - Len(suffix) + 1, Len(str)) = suffix

DotJson == <<".", "j", "s", "o", "n">>
DotTxt == <<".", "t", "x", "t">>

\* a transcript file name, YYYY-MM-DDTHH-MM-SS and an extension
TranscriptName(dt, ext) ==
    IsoFormat(dt) \o <<"T">> \o Pad2(10) \o <<"-">> \o Pad2(0) \o <<"-">>
        \o Pad2(0) \o ext

\* the files of the transcripts directory: the name, what open() and
\* json.load() come to, and session.estimatedCost when there is a session
ClearingFiles == {
    [fname |-> TranscriptName(Nov01, DotJson), load |-> "object",
     data |-> [session |-> [estimatedCost |-> JNum(12500)]]],
    [fname |-> TranscriptName(Oct31, DotJson), load |-> "object",
     data |-> [session |-> [estimatedCost |-> JNum(700)]]],
    [fname |-> TranscriptName(Nov01, DotTxt), load |-> "object",
     data |-> [session |-> [estimatedCost |-> JNum(300)]]],
    [fname |-> TranscriptName(Nov02, DotJson), load |-> "unreadable",
     data |-> EmptyDict],
    [fname |-> TranscriptName(Nov02, DotJson), load |-> "invalid",
     data |-> EmptyDict],
    [fname |-> TranscriptName(Nov02, DotJson), load |-> "array",
     data |-> EmptyDict],
    [fname |-> TranscriptName(Nov02, DotJson), load |-> "object",
     data |-> [title |-> "t"]],
    [fname |-> TranscriptName(Nov02, DotJson), load |-> "object",
     data |-> [session |-> [estimatedCost |-> JNull]]] }

\* lines 138-143: the try body for one file: the sums after it, and the
\* exception it is left with
ClearingFile(f, cost, count) ==
    IF f.load = "unreadable" THEN [cost |-> cost, count |-> count, exc |-> "OSError"]
    ELSE IF f.load = "invalid"
    THEN [cost |-> cost, count |-> count, exc |-> "JSONDecodeError"]
    ELSE IF f.load # "object"
    THEN [cost |-> cost, count |-> count, exc |-> "AttributeError"]
    ELSE LET session == Get(f.data, "session", EmptyDict)
             c == Get(session, "estimatedCost", JNum(0))
         IN  IF c.kind # "num"
             THEN [cost |-> cost, count |-> count, exc |-> "TypeError"]
             ELSE [cost |-> cost + c.v, count |-> count + 1, exc |-> ""]

\* line 144: except Exception
ClearingCatches(exc) == TRUE

\* lines 131-145: the loop over os.listdir
RECURSIVE ClearingLoop(_, _, _, _)
ClearingLoop(files, billing_start, cost, count) ==
    IF files = <<>> THEN [cost |-> cost, count |-> count, exc |-> ""]
    ELSE LET f == Head(files)
         IN  IF ~EndsWith(f.fname, DotJson)
             THEN ClearingLoop(Tail(files), billing_start, cost, count)
             ELSE IF StrLess(Prefix(f.fname, 10), billing_start)
             THEN ClearingLoop(Tail(files), billing_start, cost, count)
             ELSE LET r == ClearingFile(f, cost, count)
                  IN  IF r.exc # "" /\ ~ClearingCatches(r.exc) THEN r
                      ELSE ClearingLoop(Tail(files), billing_start, r.cost, r.count)

\* lines 122-147
ScanClearing ==
    /\ pc = "scanned"
    /\ \E isdir \in BOOLEAN :
        IF ~isdir
        THEN /\ pc' = "tw_start"
             /\ UNCHANGED <<clearing_cost, clearing_count, raised>>
        ELSE \E files \in SeqsUpTo(ClearingFiles, RunMaxClearing) :
            LET r == ClearingLoop(files, get_billing_period(today), 0, 0)
            IN  /\ clearing_cost' = r.cost
                /\ clearing_count' = r.count
                /\ IF r.exc = ""
                   THEN pc' = "tw_start" /\ raised' = raised
                   ELSE pc' = "clearing_raised" /\ raised' = r.exc
    /\ UNCHANGED <<today, roleVars, burnVars, twVars, scanVars, out>>

(***************************************************************************)
(* write_metrics: the metric blocks, in the order they are written.  A     *)
(* block is its name and its samples, each a label value and a number.     *)
(***************************************************************************)
FixedClaudeDollars == 200

Scale == 10000      \* ten-thousandths in a dollar

Block(name, samples) == [name |-> name, samples |-> samples]

Bare(v) == {<<"", v>>}

RECURSIVE SumCounter(_, _, _)
SumCounter(f, c, S) ==
    IF S = {} THEN 0
    ELSE LET k == CHOOSE x \in S : TRUE
         IN  f[k][c] + SumCounter(f, c, S \ {k})

\* sorted(daily.keys())[-7:]
Last7(days) == {d \in days : Cardinality({e \in days : StrLess(d, e)}) < 7}

\* lines 224-346
Render(dly, roles, hrs, sessions, td, ccost, ccount, tw) ==
    LET burn == compute_burn_rate(dly, td)
        days == Last7(DOMAIN dly)
        tds == IsoFormat(td)
        total_variable == tw[1] + tw[3] + ccost
    IN  << Block("claude_billing_month_elapsed_pct", Bare(burn.elapsed_pct)),
           Block("claude_billing_usage_intensity_pct", Bare(burn.usage_pct)),
           Block("claude_billing_total_messages",
                 Bare(SumCounter(dly, "msgs", DOMAIN dly))),
           Block("claude_billing_total_sessions", Bare(Cardinality(sessions))),
           Block("claude_billing_output_tokens",
                 Bare(SumCounter(dly, "output", DOMAIN dly))),
           Block("claude_billing_input_tokens",
                 Bare(SumCounter(dly, "input", DOMAIN dly))),
           Block("claude_billing_cache_read_tokens",
                 Bare(SumCounter(dly, "cache_read", DOMAIN dly))),
           Block("claude_role_messages",
                 {<<r, roles[r].msgs>> : r \in DOMAIN roles}),
           Block("claude_role_output_tokens",
                 {<<r, roles[r].output>> : r \in DOMAIN roles}),
           Block("claude_daily_messages", {<<d, dly[d].msgs>> : d \in days}),
           Block("claude_daily_output_tokens", {<<d, dly[d].output>> : d \in days}),
           Block("claude_daily_sessions",
                 {<<d, Cardinality(dly[d].sessions)>> : d \in days}),
           Block("claude_hourly_messages",
                 {<<Pad2(h), hrs[h]>> : h \in {k \in 0..23 : Get(hrs, k, 0) > 0}}) >>
        \o (IF tds \in DOMAIN dly
            THEN << Block("claude_today_messages", Bare(dly[tds].msgs)),
                    Block("claude_today_output_tokens", Bare(dly[tds].output)),
                    Block("claude_today_sessions",
                          Bare(Cardinality(dly[tds].sessions))) >>
            ELSE <<>>)
        \o << Block("cost_twilio_sms_dollars", Bare(tw[1])),
              Block("cost_twilio_sms_count", Bare(tw[2])),
              Block("cost_twilio_numbers_dollars", Bare(tw[3])),
              Block("cost_twilio_numbers_count", Bare(tw[4])),
              Block("cost_clearing_dollars", Bare(ccost)),
              Block("cost_clearing_sessions", Bare(ccount)),
              Block("cost_variable_total_dollars", Bare(total_variable)),
              Block("cost_fixed_claude_dollars", Bare(FixedClaudeDollars * Scale)),
              Block("cost_total_dollars",
                    Bare(FixedClaudeDollars * Scale + total_variable)) >>

\* lines 224-348: the burn rate, the lines, and the one print
WriteOutput ==
    /\ pc = "tw_returned"
    /\ burnDaily' = daily
    /\ burnResult' = compute_burn_rate(daily, today)
    /\ out' = Append(out, Render(daily, by_role, hourly, total_sessions, today,
                                 clearing_cost, clearing_count, twResult))
    /\ pc' = "done"
    /\ UNCHANGED <<today, roleVars, twVars, scanVars, raised,
                   clearing_cost, clearing_count>>

\* the inputs of a whole run
RunLines == {1, 2, 7, 12}

RunResponses ==
    ResponsesOf({"timeout", "JSONDecodeError"},
                {[price |-> FNum(75), count |-> FNum(1)],
                 [price |-> FNum(150), count |-> FBad]}, RunMaxRecs)

\* lines 216-348
RunNext ==
    \/ OpenFile(RunLines, RunMaxFiles, RunMaxLines)
    \/ ScanLine
    \/ NextPattern
    \/ ScanReturn
    \/ ScanClearing
    \/ TwilioEnter
    \/ TwilioSmsRequest(RunResponses)
    \/ TwilioSumSms
    \/ TwilioNumberRequest(RunResponses)
    \/ TwilioSumNumbers
    \/ WriteOutput

InitRun ==
    /\ pc = "scan"
    /\ raised = ""
    /\ today = Nov02
    /\ env \in {EnvAbsent,
                [account_sid |-> [set |-> TRUE, len |-> 34],
                 auth_token |-> [set |-> TRUE, len |-> 32]]}
    /\ InitRoleVars
    /\ InitBurnVars
    /\ InitTwVars
    /\ InitScanVars
    /\ InitRunVars

SpecRun == InitRun /\ [][RunNext]_vars

(***************************************************************************)
(* Specifications of the two pure functions.                               *)
(***************************************************************************)
MapRoleCall ==
    /\ pc = "start"
    /\ \E p \in Paths(MaxSegs) :
        /\ filepath' = p
        /\ roleResult' = map_role(p)
    /\ pc' = "returned"
    /\ UNCHANGED <<today, burnVars, twVars, raised, scanVars, runVars>>

InitRole ==
    /\ InitCommon
    /\ today = [y |-> 2026, m |-> 11, d |-> 1]
    /\ env = EnvAbsent

SpecRole == InitRole /\ [][MapRoleCall]_vars

BurnCall ==
    /\ pc = "start"
    /\ \E dly \in BurnDailies :
        /\ burnDaily' = dly
        /\ burnResult' = compute_burn_rate(dly, today)
    /\ pc' = "returned"
    /\ UNCHANGED <<today, roleVars, twVars, raised, scanVars, runVars>>

InitBurn == InitCommon /\ today \in Dates /\ env = EnvAbsent

SpecBurn == InitBurn /\ [][BurnCall]_vars

(***************************************************************************)
(* C8: map_role returns one of the five roles: the role of the first       *)
(* pattern, in table order, that is a substring of the path, and "other"   *)
(* when no pattern is.                                                     *)
(***************************************************************************)
Hits(path) == {i \in 1..4 : Contains(ROLE_MAP[i].pattern, path)}

C8_FirstPatternWins ==
    pc = "returned" =>
        /\ roleResult \in {"silas", "kade", "wren", "app", "other"}
        /\ (Hits(filepath) = {} => roleResult = "other")
        /\ \A i \in Hits(filepath) :
              (\A j \in Hits(filepath) : i <= j) => roleResult = ROLE_MAP[i].role

\* a path where -engineer/ comes first in the path and -architect/ first in the table
C8_Witness ==
    /\ pc = "returned"
    /\ filepath = PatEngineer \o <<"x">> \o PatArchitect
    /\ roleResult = "silas"

(***************************************************************************)
(* C9: elapsed_pct = day / days_in_month * 100 with February at 28 in      *)
(* every year, usage_pct = active_days / max(day, 1) * 100 where           *)
(* active_days counts the days whose msgs > 0.                             *)
(***************************************************************************)
RatEq(r, n, d) == r.num * d = n * r.den

MonthTable == <<31, 28, 31, 30, 31, 30, 31, 31, 30, 31, 30, 31>>

C9_BurnRate ==
    pc = "returned" /\ burnResult # NoResult =>
        LET active == Cardinality({k \in DOMAIN burnDaily : burnDaily[k].msgs >= 1})
        IN  /\ RatEq(burnResult.elapsed_pct, today.d * 100, MonthTable[today.m])
            /\ RatEq(burnResult.usage_pct, active * 100, today.d)

\* day 10 with three active days and one day of msgs = 0: usage_pct is 30
C9_Witness ==
    /\ pc = "returned" /\ burnResult # NoResult
    /\ today.d = 10
    /\ Cardinality(DOMAIN burnDaily) = 4
    /\ \E k \in DOMAIN burnDaily : burnDaily[k].msgs = 0
    /\ RatEq(burnResult.usage_pct, 30, 1)

(***************************************************************************)
(* C6: with both credentials set, the SMS request and then the phone       *)
(* number request are issued, each at most once; no exception leaves the   *)
(* function; the figures returned are the sums of the fields converted     *)
(* before the first failure, zero for what was not summed, and a failure   *)
(* of the second request keeps the SMS figures.  (A record whose count     *)
(* does not convert has already added its price.)                          *)
(***************************************************************************)
BadField(f) == f.kind \in {"null", "bad"}

FieldValue(f) == IF f.kind = "num" THEN f.v ELSE 0

\* the first record with a field that does not convert, Len + 1 when none
FirstBad(recs) ==
    LET bad == {i \in 1..Len(recs) : BadField(recs[i].price) \/ BadField(recs[i].count)}
    IN  IF bad = {} THEN Len(recs) + 1
        ELSE CHOOSE i \in bad : \A j \in bad : i <= j

RECURSIVE SumField(_, _, _)
SumField(recs, field, n) ==
    IF n = 0 THEN 0
    ELSE SumField(recs, field, n - 1) + FieldValue(recs[n][field])

ExpectedCost(resp) ==
    LET fb == FirstBad(resp.records)
    IN  IF resp.exc # "" THEN 0
        ELSE SumField(resp.records, "price", fb - 1)
             + (IF fb <= Len(resp.records) /\ ~BadField(resp.records[fb].price)
                THEN FieldValue(resp.records[fb].price) ELSE 0)

ExpectedCount(resp) ==
    IF resp.exc # "" THEN 0
    ELSE SumField(resp.records, "count", FirstBad(resp.records) - 1)

Succeeded(resp) == resp.exc = "" /\ FirstBad(resp.records) = Len(resp.records) + 1

NoResponse == [exc |-> "none", records |-> <<>>]

C6_WitnessPartialRecord ==
    /\ pc = "tw_returned"
    /\ Len(responses) = 1
    /\ responses[1].exc = ""
    /\ twResult = <<225, 1, 0, 0>>

(***************************************************************************)
(* C7: when either credential is absent, no request is made and the value  *)
(* returned is (0.0, 0, 0.0, 0); nothing is raised.                        *)
(***************************************************************************)
C7_DisabledWithoutCredentials ==
    (~env.account_sid.set \/ ~env.auth_token.set) =>
        /\ requests = <<>>
        /\ raised = ""
        /\ pc \in {"tw_start", "tw_returned"}
        /\ (pc = "tw_returned" => twResult = <<0, 0, 0, 0>>)

\* the account id is set and the token is not
C7_Witness ==
    /\ pc = "tw_returned"
    /\ env.account_sid.set /\ env.account_sid.len > 0
    /\ ~env.auth_token.set
    /\ twResult = <<0, 0, 0, 0>>

(***************************************************************************)
(* Measures of the rollups used by the claims about the scan.              *)
(***************************************************************************)
RECURSIVE SumMsgs(_, _)
SumMsgs(f, S) ==
    IF S = {} THEN 0
    ELSE LET k == CHOOSE x \in S : TRUE
         IN  f[k].msgs + SumMsgs(f, S \ {k})

RECURSIVE SumCounts(_, _)
SumCounts(f, S) ==
    IF S = {} THEN 0
    ELSE LET k == CHOOSE x \in S : TRUE
         IN  f[k] + SumCounts(f, S \ {k})

DailyMsgs(d) == SumMsgs(d, DOMAIN d)
RoleMsgs(r) == SumMsgs(r, DOMAIN r)
HourlyMsgs(h) == SumCounts(h, DOMAIN h)

BillingStart == get_billing_period(today)

\* a step that reads the open file
ReadsLine == pc = "scan" /\ rest # <<>>

(***************************************************************************)
(* C1: after the scan, the msgs of the daily rollup, the msgs of the role  *)
(* rollup and the counts of the hourly rollup each sum to the number of    *)
(* records of the scanned files that have a usage block that is not empty  *)
(* and a qualifying timestamp.                                             *)
(***************************************************************************)
C1_RollupsCountQualifying ==
    pc = "scanned" =>
        /\ DailyMsgs(daily) = qualInput
        /\ RoleMsgs(by_role) = qualInput
        /\ HourlyMsgs(hourly) = qualInput

(***************************************************************************)
(* C2: a line that does not parse as a record is skipped alone: the        *)
(* rollups keep what they hold, and when a qualifying record follows it in *)
(* the file, the lines after it stay to be scanned.                        *)
(***************************************************************************)
C2_MalformedSkippedAlone ==
    [][ReadsLine /\ Lines[Head(rest)].json # "object" =>
          /\ UNCHANGED rollups
          /\ ((\E i \in 2..Len(rest) : Qualifies(Lines[rest[i]], BillingStart))
                 => rest' = Tail(rest))]_vars

(***************************************************************************)
(* C3: a record contributes exactly when its timestamp is present and not  *)
(* before the billing start and its usage block is not empty: in a step    *)
(* that reads the file, each rollup grows by the number of qualifying      *)
(* records the step takes from the file, and a record that does not        *)
(* qualify changes nothing.                                                *)
(***************************************************************************)
TakenQualifying ==
    Cardinality({i \in 1..(Len(rest) - Len(rest')) :
                    Qualifies(Lines[rest[i]], BillingStart)})

C3_ContributesIffQualifies ==
    [][ReadsLine =>
          /\ DailyMsgs(daily') - DailyMsgs(daily) = TakenQualifying
          /\ RoleMsgs(by_role') - RoleMsgs(by_role) = TakenQualifying
          /\ HourlyMsgs(hourly') - HourlyMsgs(hourly) = TakenQualifying
          /\ (~Qualifies(Lines[Head(rest)], BillingStart) => UNCHANGED rollups)]_vars

(***************************************************************************)
(* C5: after the scan, each day's session set is the set of sessionIds of  *)
(* the qualifying records of that day, and the global session set is the   *)
(* union of the days' sets.                                                *)
(***************************************************************************)
C5_SessionSets ==
    pc = "scanned" =>
        /\ DOMAIN daily = {p[1] : p \in qualPairs}
        /\ \A day \in DOMAIN daily :
              daily[day].sessions = {p[2] : p \in {q \in qualPairs : q[1] = day}}
        /\ total_sessions = UNION {daily[day].sessions : day \in DOMAIN daily}

(***************************************************************************)
(* C10: every record that is counted increments exactly one hourly         *)
(* counter, the one of the hour in characters 11-12 of its timestamp when  *)
(* the timestamp is long enough to hold them, and of hour 0 only when it   *)
(* is too short; the keys of the hourly rollup are in 0..23.               *)
(***************************************************************************)
HourInTimestamp(ts) ==
    IF Len(ts) >= 13 THEN (Ord(ts[12]) - 48) * 10 + (Ord(ts[13]) - 48) ELSE 0

C10_HourKey ==
    [][ReadsLine /\ DailyMsgs(daily') = DailyMsgs(daily) + 1 =>
          LET hh == HourInTimestamp(Lines[Head(rest)].obj.timestamp)
          IN  /\ hh \in 0..23
              /\ hourly' = [Touch(hourly, hh, 0) EXCEPT ![hh] = @ + 1]
              /\ DOMAIN hourly' \subseteq 0..23]_vars

(***************************************************************************)
(* C4: whatever records are malformed, files unreadable, directories       *)
(* missing, API calls failing and credentials missing, no exception leaves *)
(* scan_claude_sessions or write_metrics, the run does not stop before it  *)
(* has printed, and it prints once: every metric block, in the fixed       *)
(* order.                                                                  *)
(***************************************************************************)
FixedBlocksBefore == <<
    "claude_billing_month_elapsed_pct", "claude_billing_usage_intensity_pct",
    "claude_billing_total_messages", "claude_billing_total_sessions",
    "claude_billing_output_tokens", "claude_billing_input_tokens",
    "claude_billing_cache_read_tokens", "claude_role_messages",
    "claude_role_output_tokens", "claude_daily_messages",
    "claude_daily_output_tokens", "claude_daily_sessions",
    "claude_hourly_messages" >>

TodayBlocks == <<"claude_today_messages", "claude_today_output_tokens",
                 "claude_today_sessions">>

FixedBlocksAfter == <<
    "cost_twilio_sms_dollars", "cost_twilio_sms_count",
    "cost_twilio_numbers_dollars", "cost_twilio_numbers_count",
    "cost_clearing_dollars", "cost_clearing_sessions",
    "cost_variable_total_dollars", "cost_fixed_claude_dollars",
    "cost_total_dollars" >>

BlockNames(snapshot) == [i \in 1..Len(snapshot) |-> snapshot[i].name]

CompleteSnapshot(snapshot) ==
    BlockNames(snapshot) \in
        {FixedBlocksBefore \o FixedBlocksAfter,
         FixedBlocksBefore \o TodayBlocks \o FixedBlocksAfter}

====
